---- MODULE Spec2Model ----
(***************************************************************************)
(* The text-to-speech cache and dispatcher of claude-speaks:                *)
(*   utils/tts/cached_tts.py   speak_with_cache and its helpers             *)
(*   utils/tts/*_tts.py        the stand-alone backend scripts              *)
(*   notification.py           announce_notification, which runs the        *)
(*                             dispatcher as a child process                 *)
(* Every hook invocation is an operating-system process of its own; the     *)
(* processes share the cache directory and nothing else.                    *)
(***************************************************************************)
EXTENDS Integers, Sequences, FiniteSets, TLC

VARIABLES
    cache,      \* the cache directory: path -> bytes of the file at that path
    pc,         \* per process: the statement the process is at
    env,        \* per process: its environment (credential, voice variable)
    text,       \* per process: the message it was asked to speak
    result,     \* per process: the dict speak_with_cache builds
    player,     \* per process: which audio player play_audio tries next
    resp,       \* per process: response.content of the synthesis request
    net,        \* per process: requests sent in this call, per endpoint
    out,        \* per process: what was actually heard in this call
    caps,       \* per process: the backends get_tts_script_path could choose from
    hadEntry,   \* per process: a cache entry existed when the call started
    meta,       \* per process: the hook's tts_metadata
    io,         \* the arguments and the value of a call of a pure helper
    log,        \* the event log of the hook at work, and chat.json
    hk,         \* per process: main() of the hook, its locals and its exit code
    gen         \* generate_cache.main: its loop index, its counters, its return

\* What the dispatcher and the announcing hook leave alone
others == <<io, log, hk, gen>>

vars == <<cache, pc, env, text, result, player, resp, net, out, caps, hadEntry, meta, others>>

-----------------------------------------------------------------------------
(* Bounds of the model *)

MaxTake == 2        \* distinct audio renderings the service may return
FullLen == 2        \* chunks in a complete audio file
MaxTextLen == 2     \* characters of a text handed to get_cached_audio_path alone
MaxLog == 2         \* entries in the event log

Procs == {1, 2}

\* The messages spoken. An entry's path is made of the voice and the digest of
\* the message, so entries of different messages never meet; two voices already
\* give two entries side by side.
\* A text is the sequence of its characters.
Texts == {<<"A", "l", "l", " ", "s", "e", "t", "!">>}
Takes == 1..MaxTake

-----------------------------------------------------------------------------
(* Values *)

None == "None"
NoText == <<>>
Unset == "unset"
DefaultVoice == "21m00Tcm4TlvDq8ikWAM"
OtherVoice == "pNInz6obpgDQGcFmaJgB"
VoiceSettings == {Unset, OtherVoice}
NumPlayers == 3

Scripts == {"elevenlabs_tts", "openai_tts", "system_voice_tts"}

\* os.getenv('ELEVENLABS_VOICE_ID', '21m00Tcm4TlvDq8ikWAM')
VoiceId(e) == IF e.voice = Unset THEN DefaultVoice ELSE e.voice

\* str.encode('utf-8') of one character
Utf8(ch) ==
    CASE ch = " " -> <<32>>
      [] ch = "!" -> <<33>>
      [] ch = "A" -> <<65>>
      [] ch = "a" -> <<97>>
      [] ch = "d" -> <<100>>
      [] ch = "e" -> <<101>>
      [] ch = "l" -> <<108>>
      [] ch = "n" -> <<110>>
      [] ch = "o" -> <<111>>
      [] ch = "s" -> <<115>>
      [] ch = "t" -> <<116>>

\* text.encode('utf-8'): the bytes of the characters in order, nothing stripped
\* and no case folded
RECURSIVE encode(_)
encode(t) == IF t = <<>> THEN <<>> ELSE Utf8(Head(t)) \o encode(Tail(t))

\* hashlib.md5(...).hexdigest(): the digest of the bytes. On the short texts of
\* the model MD5 has no collision, so the digest is written as the bytes it was
\* computed from.
md5(bytes) == <<"md5", bytes>>

get_cache_key(t) == md5(encode(t))

\* get_cached_audio_path keeping every voice's entries in one directory
get_cached_audio_path_flat(e, t) == [dir |-> DefaultVoice, name |-> get_cache_key(t)]

\* cache/{voice_id}/{md5}.mp3
get_cached_audio_path(e, t) == [dir |-> VoiceId(e), name |-> get_cache_key(t)]

\* The body of a 200 response to a synthesis request for (voice v, text t)
Audio(v, t, k) == [i \in 1..FullLen |-> [voice |-> v, text |-> t, take |-> k]]

\* The body of a response whose status is not 200
ErrorBody == <<[voice |-> None, text |-> NoText, take |-> 0]>>

exists(path) == path \in DOMAIN cache

Prefix(s, n) == SubSeq(s, 1, n)

\* result["cache_file"] = None
NoPath == [dir |-> None, name |-> <<>>]

NewResult ==
    [cache_hit |-> FALSE, cache_file |-> NoPath, tts_backend |-> None,
     voice_id |-> None, fallback_used |-> FALSE]

NewMeta == [tts_triggered |-> FALSE, error |-> None, tts_backend |-> None, cache_hit |-> FALSE]

NoNet == [premium |-> 0, secondary |-> 0]
NoOut == [backend |-> None, whole |-> TRUE]
NoCaps == [seen |-> FALSE, available |-> {}]

Complete(d) ==
    /\ Len(d) = FullLen
    /\ \A i \in 1..Len(d) : d[i] = d[1] /\ d[1].voice # None

\* Writing d at offset 0 of a file that holds c (open(..., 'wb') does not append)
Overlay(c, d) == d \o SubSeq(c, Len(d) + 1, Len(c))

-----------------------------------------------------------------------------
(* Backend selection *)

\* get_tts_script_path taking the premium script whenever it is installed,
\* without looking at ELEVENLABS_API_KEY
get_tts_script_path_nokey(e, c) ==
    IF "elevenlabs_tts" \in c.installed THEN "elevenlabs_tts"
    ELSE IF c.openai_key /\ "openai_tts" \in c.installed THEN "openai_tts"
    ELSE IF "system_voice_tts" \in c.installed THEN "system_voice_tts"
    ELSE None

\* cached_tts.get_tts_script_path: ElevenLabs > OpenAI > system voice
get_tts_script_path(e, c) ==
    IF e.elKey /\ "elevenlabs_tts" \in c.installed THEN "elevenlabs_tts"
    ELSE IF c.openai_key /\ "openai_tts" \in c.installed THEN "openai_tts"
    ELSE IF "system_voice_tts" \in c.installed THEN "system_voice_tts"
    ELSE None

\* notification.get_tts_script_path turning to the cached wrapper last
hook_get_tts_script_path_wrapperlast(cachedExists, e, c) ==
    IF get_tts_script_path(e, c) # None THEN get_tts_script_path(e, c)
    ELSE IF cachedExists THEN "cached_tts" ELSE None

\* notification.get_tts_script_path: the cached wrapper first, then the same order
hook_get_tts_script_path(cachedExists, e, c) ==
    IF cachedExists THEN "cached_tts" ELSE get_tts_script_path(e, c)

-----------------------------------------------------------------------------
(* The stand-alone backend scripts, as the runs one invocation can have:    *)
(* how it ends, the requests it sent and whether anything was heard.        *)

Run(end, premium, secondary, audible) ==
    [end |-> end, premium |-> premium, secondary |-> secondary, audible |-> audible]

\* elevenlabs_tts.py line 28: the voice of every request of the script, whatever
\* ELEVENLABS_VOICE_ID is set to
ScriptVoice == DefaultVoice

\* elevenlabs_tts.py: speak() and the __main__ block
ElevenlabsTtsRuns(e) ==
    IF ~e.elKey
    THEN {Run("exit1", 0, 0, FALSE)}              \* no key: return False
    ELSE {Run("exit1", 0, 0, FALSE),              \* import requests fails
          Run("exit1", 1, 0, FALSE),              \* request raises, or status # 200
          Run("exit0", 1, 0, TRUE),               \* 200, and a player plays the file
          Run("exit0", 1, 0, FALSE)}              \* 200, every player fails: pass

\* system_voice_tts.py: say, spd-say, espeak in turn
SystemVoiceRuns ==
    {Run("exit0", 0, 0, TRUE), Run("exit1", 0, 0, FALSE)}

\* openai_tts.py: the secondary cloud backend, synthesize(text) -> audio | fail
OpenaiTtsRuns ==
    {Run("exit0", 0, 1, TRUE), Run("exit1", 0, 1, FALSE), Run("exit1", 0, 0, FALSE)}

ScriptRuns(script, e) ==
    IF script = "elevenlabs_tts" THEN ElevenlabsTtsRuns(e)
    ELSE IF script = "openai_tts" THEN OpenaiTtsRuns
    ELSE SystemVoiceRuns

\* subprocess.run(['python3', script, ...], timeout=10): the script runs to its
\* end, or is killed at the timeout after some of its effects, or cannot start
SubprocessRuns(script, e) ==
    ScriptRuns(script, e)
      \cup {[r EXCEPT !.end = "timeout"] : r \in ScriptRuns(script, e)}
      \cup {Run("oserror", 0, 0, FALSE)}

Envs == [elKey : BOOLEAN, voice : VoiceSettings]

\* What a process may find installed next to it, and whether OPENAI_API_KEY is set
Caps == [installed : SUBSET Scripts, openai_key : BOOLEAN]

\* The backends a process with environment e and surroundings c can use: the
\* script is there and, for a cloud backend, so is its key
Available(e, c) ==
    {s \in c.installed :
        /\ s = "elevenlabs_tts" => e.elKey
        /\ s = "openai_tts" => c.openai_key}

Seen(e, c) == [seen |-> TRUE, available |-> Available(e, c)]

\* No pure helper has been called on its own
NoCall ==
    [op |-> "none", e1 |-> [elKey |-> FALSE, voice |-> Unset], t1 |-> NoText, ret1 |-> NoPath,
     e2 |-> [elKey |-> FALSE, voice |-> Unset], t2 |-> NoText, ret2 |-> NoPath,
     c |-> [installed |-> {}, openai_key |-> FALSE], wrapper |-> FALSE,
     script |-> None, hook_script |-> None]

\* The hooks, and the log file of each: logs/notification.json, logs/stop.json
Kinds == {"notification", "stop"}

\* The log directory before the first invocation of the hook
NoLog(kind) == [kind |-> kind, file |-> "absent", entries |-> <<>>, chat |-> FALSE]

\* What is on standard input: not JSON, JSON that is no object, or an object
Stdin(form, message) == [form |-> form, message |-> message]

\* No hook process
NoHook ==
    [at |-> "off", flags |-> "", stdin |-> Stdin("malformed", None), log_data |-> <<>>,
     log0 |-> [file |-> "absent", entries |-> <<>>], code |-> 0, dumped |-> FALSE]

\* generate_cache.main not running
NoGen ==
    [at |-> "off", i |-> 1, success_count |-> 0, skip_count |-> 0, fail_count |-> 0,
     unspoken |-> 0, code |-> 0, crashed |-> FALSE]

-----------------------------------------------------------------------------
InitDispatch ==
    /\ cache = [k \in {} |-> <<>>]
    /\ pc = [p \in Procs |-> "idle"]
    /\ env = [p \in Procs |-> [elKey |-> FALSE, voice |-> Unset]]
    /\ text = [p \in Procs |-> NoText]
    /\ result = [p \in Procs |-> NewResult]
    /\ player = [p \in Procs |-> 1]
    /\ resp = [p \in Procs |-> <<>>]
    /\ net = [p \in Procs |-> NoNet]
    /\ out = [p \in Procs |-> NoOut]
    /\ caps = [p \in Procs |-> NoCaps]
    /\ hadEntry = [p \in Procs |-> FALSE]
    /\ meta = [p \in Procs |-> NewMeta]

Init ==
    /\ InitDispatch
    /\ io = NoCall
    /\ log = NoLog("notification")
    /\ hk = [p \in Procs |-> NoHook]
    /\ gen = NoGen

Put(path, d) ==
    [k \in DOMAIN cache \cup {path} |-> IF k = path THEN d ELSE cache[k]]

path_of(p) == get_cached_audio_path(env[p], text[p])

\* A new hook invocation: a fresh process with its own environment and message
Fresh(p, e, t) ==
    /\ pc[p] = "idle"
    /\ env' = [env EXCEPT ![p] = e]
    /\ text' = [text EXCEPT ![p] = t]
    /\ result' = [result EXCEPT ![p] = NewResult]
    /\ player' = [player EXCEPT ![p] = 1]
    /\ resp' = [resp EXCEPT ![p] = <<>>]
    /\ hadEntry' = [hadEntry EXCEPT ![p] = exists(get_cached_audio_path(e, t))]
    /\ UNCHANGED <<cache, others>>

-----------------------------------------------------------------------------
(* notification.announce_notification *)

\* lines 69-71: no TTS script at all, tts_triggered stays False
AnnounceNoScript(p, E, C) ==
    \E e \in E, t \in Texts, c \in C :
        /\ Fresh(p, e, t)
        /\ hook_get_tts_script_path(FALSE, e, c) = None
        /\ caps' = [caps EXCEPT ![p] = Seen(e, c)]
        /\ meta' = [meta EXCEPT ![p] = NewMeta]
        /\ net' = [net EXCEPT ![p] = NoNet]
        /\ out' = [out EXCEPT ![p] = NoOut]
        /\ pc' = [pc EXCEPT ![p] = "done"]

\* lines 85-96 with cached_tts.py installed: the child runs cached_tts.py,
\* whose __main__ calls speak_with_cache(message)
AnnounceCached(p, E) ==
    \E e \in E, t \in Texts :
        /\ Fresh(p, e, t)
        /\ caps' = [caps EXCEPT ![p] = NoCaps]
        /\ meta' = [meta EXCEPT ![p] = [NewMeta EXCEPT !.tts_triggered = TRUE]]
        /\ net' = [net EXCEPT ![p] = NoNet]
        /\ out' = [out EXCEPT ![p] = NoOut]
        /\ pc' = [pc EXCEPT ![p] = "speak"]

\* The error announce_notification records for a child that did not end
HookError(end) ==
    IF end = "timeout" THEN "TTS timeout"
    ELSE IF end = "oserror" THEN "TTS script not found"
    ELSE None

\* lines 39-57, 85-113 without cached_tts.py: the child is a backend script
AnnounceDirect(p, E, C) ==
    \E e \in E, t \in Texts, c \in C :
        LET script == hook_get_tts_script_path(FALSE, e, c) IN
        /\ Fresh(p, e, t)
        /\ script # None
        /\ caps' = [caps EXCEPT ![p] = Seen(e, c)]
        /\ \E r \in SubprocessRuns(script, e) :
            /\ meta' = [meta EXCEPT ![p] =
                   [NewMeta EXCEPT !.tts_triggered = TRUE, !.error = HookError(r.end)]]
            /\ net' = [net EXCEPT ![p] = [premium |-> r.premium, secondary |-> r.secondary]]
            /\ out' = [out EXCEPT ![p] =
                   [NoOut EXCEPT !.backend = IF r.audible THEN script ELSE None]]
        /\ pc' = [pc EXCEPT ![p] = "done"]

Running == {"speak", "play_cached", "generate", "open", "write", "play_new", "fallback"}

\* lines 90-96, 106-107: the child has not ended after 10 seconds and is killed;
\* a child killed inside f.write leaves the bytes it had written so far
HookTimeout(p) ==
    /\ pc[p] \in Running
    /\ meta' = [meta EXCEPT ![p].error = "TTS timeout"]
    /\ pc' = [pc EXCEPT ![p] = "done"]
    /\ IF pc[p] = "write"
       THEN \E n \in 0..(Len(resp[p]) - 1) :
               cache' = Put(path_of(p), Overlay(cache[path_of(p)], Prefix(resp[p], n)))
       ELSE UNCHANGED cache
    /\ UNCHANGED <<env, text, result, player, resp, net, out, caps, hadEntry, others>>

\* cached_tts.py line 221: exit 0 iff the result names a backend; a traceback exits 1
ExitCode(p) == IF pc[p] = "returned" /\ result[p].tts_backend # None THEN 0 ELSE 1

\* lines 98-104: the child has ended; its JSON is merged when it exited 0
Collect(p) ==
    /\ pc[p] \in {"returned", "raised"}
    /\ meta' = [meta EXCEPT ![p] =
           IF ExitCode(p) = 0
           THEN [@ EXCEPT !.tts_backend = result[p].tts_backend,
                          !.cache_hit = result[p].cache_hit]
           ELSE @]
    /\ pc' = [pc EXCEPT ![p] = "done"]
    /\ UNCHANGED <<cache, env, text, result, player, resp, net, out, caps, hadEntry, others>>

-----------------------------------------------------------------------------
(* cached_tts.speak_with_cache *)

\* AfterCache going on to synthesis without result["tts_backend"] = "elevenlabs"
AfterCache_nobackend(p, r) ==
    IF env[p].elKey
    THEN /\ result' = [result EXCEPT ![p] = [r EXCEPT !.voice_id = VoiceId(env[p])]]
         /\ pc' = [pc EXCEPT ![p] = "generate"]
    ELSE /\ result' = [result EXCEPT ![p] = r]
         /\ pc' = [pc EXCEPT ![p] = "fallback"]

\* lines 178-182 and 188: with the credential go on to synthesis, else fall back
AfterCache(p, r) ==
    IF env[p].elKey
    THEN /\ result' = [result EXCEPT ![p] =
                [r EXCEPT !.tts_backend = "elevenlabs", !.voice_id = VoiceId(env[p])]]
         /\ pc' = [pc EXCEPT ![p] = "generate"]
    ELSE /\ result' = [result EXCEPT ![p] = r]
         /\ pc' = [pc EXCEPT ![p] = "fallback"]

\* lines 27-38, 164: get_cache_dir's mkdir fails; nothing catches the OSError
SpeakMkdirFails(p) ==
    /\ pc[p] = "speak"
    /\ pc' = [pc EXCEPT ![p] = "raised"]
    /\ UNCHANGED <<cache, env, text, result, player, resp, net, out, caps, hadEntry, meta, others>>

\* SpeakHit forgetting result["cache_hit"] = True
SpeakHit_noflag(p) ==
    /\ pc[p] = "speak"
    /\ exists(path_of(p))
    /\ result' = [result EXCEPT ![p] =
           [@ EXCEPT !.cache_file = path_of(p), !.voice_id = path_of(p).dir,
                     !.tts_backend = "cache"]]
    /\ player' = [player EXCEPT ![p] = 1]
    /\ pc' = [pc EXCEPT ![p] = "play_cached"]
    /\ UNCHANGED <<cache, env, text, resp, net, out, caps, hadEntry, meta, others>>

\* lines 163-173: the entry exists; cache_hit and backend are set before playback
SpeakHit(p) ==
    /\ pc[p] = "speak"
    /\ exists(path_of(p))
    /\ result' = [result EXCEPT ![p] =
           [@ EXCEPT !.cache_file = path_of(p), !.voice_id = path_of(p).dir,
                     !.cache_hit = TRUE, !.tts_backend = "cache"]]
    /\ player' = [player EXCEPT ![p] = 1]
    /\ pc' = [pc EXCEPT ![p] = "play_cached"]
    /\ UNCHANGED <<cache, env, text, resp, net, out, caps, hadEntry, meta, others>>

\* lines 163-168, 178-182: no entry
SpeakMiss(p) ==
    /\ pc[p] = "speak"
    /\ ~exists(path_of(p))
    /\ AfterCache(p, [result[p] EXCEPT !.cache_file = path_of(p)])
    /\ UNCHANGED <<cache, env, text, player, resp, net, out, caps, hadEntry, meta, others>>

\* play_audio, lines 57-58, 62-63, 67-71: the player at hand exits 0
PlayOk(p) ==
    /\ pc[p] \in {"play_cached", "play_new"}
    /\ out' = [out EXCEPT ![p] =
           [backend |-> result[p].tts_backend, whole |-> Complete(cache[path_of(p)])]]
    /\ pc' = [pc EXCEPT ![p] = "returned"]
    /\ UNCHANGED <<cache, env, text, result, player, resp, net, caps, hadEntry, meta, others>>

\* play_audio, lines 59, 64: FileNotFoundError or SubprocessError (a non-zero
\* exit, a timeout): try the next player
PlayNext(p) ==
    /\ pc[p] \in {"play_cached", "play_new"}
    /\ player[p] < NumPlayers
    /\ player' = [player EXCEPT ![p] = @ + 1]
    /\ UNCHANGED <<cache, pc, env, text, result, resp, net, out, caps, hadEntry, meta, others>>

\* play_audio, lines 72-73: the last player failed too, return False;
\* lines 174-176 and 185-188 go on
PlayFalse(p) ==
    /\ pc[p] \in {"play_cached", "play_new"}
    /\ player[p] = NumPlayers
    /\ IF pc[p] = "play_cached"
       THEN AfterCache(p, result[p])
       ELSE /\ pc' = [pc EXCEPT ![p] = "fallback"]
            /\ UNCHANGED result
    /\ UNCHANGED <<cache, env, text, player, resp, net, out, caps, hadEntry, meta, others>>

\* play_audio: subprocess.run raises an OSError that is no FileNotFoundError
\* (PermissionError on the player); neither except clause catches it
PlayRaises(p) ==
    /\ pc[p] \in {"play_cached", "play_new"}
    /\ pc' = [pc EXCEPT ![p] = "raised"]
    /\ UNCHANGED <<cache, env, text, result, player, resp, net, out, caps, hadEntry, meta, others>>

-----------------------------------------------------------------------------
(* cached_tts.generate_and_cache_audio *)

\* generate_and_cache_audio saving the body whatever the status
Cacheable_any(status) == TRUE

\* line 137: only a 200 response is saved
Cacheable(status) == status = 200

\* lines 112-113, 145: `import requests` fails before any request is sent
GenerateNoRequest(p) ==
    /\ pc[p] = "generate"
    /\ pc' = [pc EXCEPT ![p] = "fallback"]
    /\ UNCHANGED <<cache, env, text, result, player, resp, net, out, caps, hadEntry, meta, others>>

\* line 135, 145: the request was sent and raised (timeout, connection error)
GenerateRaises(p) ==
    /\ pc[p] = "generate"
    /\ net' = [net EXCEPT ![p].premium = @ + 1]
    /\ pc' = [pc EXCEPT ![p] = "fallback"]
    /\ UNCHANGED <<cache, env, text, result, player, resp, out, caps, hadEntry, meta, others>>

\* lines 117-143: the request for (voice, text) is answered
GenerateResponse(p) ==
    /\ pc[p] = "generate"
    /\ net' = [net EXCEPT ![p].premium = @ + 1]
    /\ \E status \in {200, 500}, k \in Takes :
         LET body == IF status = 200 THEN Audio(VoiceId(env[p]), text[p], k)
                     ELSE ErrorBody
         IN IF Cacheable(status)
            THEN /\ resp' = [resp EXCEPT ![p] = body]
                 /\ pc' = [pc EXCEPT ![p] = "open"]
            ELSE /\ pc' = [pc EXCEPT ![p] = "fallback"]
                 /\ UNCHANGED resp
    /\ UNCHANGED <<cache, env, text, result, player, out, caps, hadEntry, meta, others>>

\* line 139: open(audio_path, 'wb') creates the file, or empties the one there
OpenOk(p) ==
    /\ pc[p] = "open"
    /\ cache' = Put(path_of(p), <<>>)
    /\ pc' = [pc EXCEPT ![p] = "write"]
    /\ UNCHANGED <<env, text, result, player, resp, net, out, caps, hadEntry, meta, others>>

\* lines 139, 145: open raises, generate_and_cache_audio returns False
OpenFails(p) ==
    /\ pc[p] = "open"
    /\ pc' = [pc EXCEPT ![p] = "fallback"]
    /\ UNCHANGED <<cache, env, text, result, player, resp, net, out, caps, hadEntry, meta, others>>

\* lines 140-141, 184-185: the whole body is written, then played
WriteOk(p) ==
    /\ pc[p] = "write"
    /\ cache' = Put(path_of(p), Overlay(cache[path_of(p)], resp[p]))
    /\ player' = [player EXCEPT ![p] = 1]
    /\ pc' = [pc EXCEPT ![p] = "play_new"]
    /\ UNCHANGED <<env, text, result, resp, net, out, caps, hadEntry, meta, others>>

\* lines 140, 145: the write raises partway (disk full, I/O error)
WriteFails(p) ==
    /\ pc[p] = "write"
    /\ \E n \in 0..(Len(resp[p]) - 1) :
         cache' = Put(path_of(p), Overlay(cache[path_of(p)], Prefix(resp[p], n)))
    /\ pc' = [pc EXCEPT ![p] = "fallback"]
    /\ UNCHANGED <<env, text, result, player, resp, net, out, caps, hadEntry, meta, others>>

-----------------------------------------------------------------------------
(* speak_with_cache, lines 188-203: the fallback *)

\* lines 189-191, 203: no script is found
FallbackNone(p, C) ==
    /\ pc[p] = "fallback"
    /\ \E c \in C :
         /\ get_tts_script_path(env[p], c) = None
         /\ caps' = [caps EXCEPT ![p] = Seen(env[p], c)]
    /\ result' = [result EXCEPT ![p].fallback_used = TRUE]
    /\ pc' = [pc EXCEPT ![p] = "returned"]
    /\ UNCHANGED <<cache, env, text, player, resp, net, out, hadEntry, meta, others>>

\* lines 189-203: the script found is run; its exit status is not looked at, a
\* timeout is passed over, any other OSError of the launch is not caught
FallbackRun(p, C) ==
    /\ pc[p] = "fallback"
    /\ \E c \in C :
         LET script == get_tts_script_path(env[p], c) IN
         /\ script # None
         /\ caps' = [caps EXCEPT ![p] = Seen(env[p], c)]
         /\ result' = [result EXCEPT ![p].fallback_used = TRUE, ![p].tts_backend = script]
         /\ \E r \in SubprocessRuns(script, env[p]) :
              /\ net' = [net EXCEPT ![p] = [premium |-> @.premium + r.premium,
                                            secondary |-> @.secondary + r.secondary]]
              /\ out' = [out EXCEPT ![p] =
                     [NoOut EXCEPT !.backend = IF r.audible THEN script ELSE None]]
              /\ pc' = [pc EXCEPT ![p] = IF r.end = "oserror" THEN "raised" ELSE "returned"]
    /\ UNCHANGED <<cache, env, text, player, resp, hadEntry, meta, others>>

-----------------------------------------------------------------------------
\* notification.main, line 159: the hook process exits; nothing of it remains
\* but the files it wrote
Exit(p) ==
    /\ pc[p] = "done"
    /\ pc' = [pc EXCEPT ![p] = "idle"]
    /\ env' = [env EXCEPT ![p] = [elKey |-> FALSE, voice |-> Unset]]
    /\ text' = [text EXCEPT ![p] = NoText]
    /\ result' = [result EXCEPT ![p] = NewResult]
    /\ player' = [player EXCEPT ![p] = 1]
    /\ resp' = [resp EXCEPT ![p] = <<>>]
    /\ net' = [net EXCEPT ![p] = NoNet]
    /\ out' = [out EXCEPT ![p] = NoOut]
    /\ caps' = [caps EXCEPT ![p] = NoCaps]
    /\ hadEntry' = [hadEntry EXCEPT ![p] = FALSE]
    /\ meta' = [meta EXCEPT ![p] = NewMeta]
    /\ UNCHANGED <<cache, others>>

Step(p, E, C) ==
    \/ AnnounceNoScript(p, E, C)
    \/ AnnounceCached(p, E)
    \/ AnnounceDirect(p, E, C)
    \/ HookTimeout(p)
    \/ Collect(p)
    \/ SpeakMkdirFails(p)
    \/ SpeakHit(p)
    \/ SpeakMiss(p)
    \/ PlayOk(p)
    \/ PlayNext(p)
    \/ PlayFalse(p)
    \/ PlayRaises(p)
    \/ GenerateNoRequest(p)
    \/ GenerateRaises(p)
    \/ GenerateResponse(p)
    \/ OpenOk(p)
    \/ OpenFails(p)
    \/ WriteOk(p)
    \/ WriteFails(p)
    \/ FallbackNone(p, C)
    \/ FallbackRun(p, C)
    \/ Exit(p)

\* One hook invocation at a time
Next == Step(1, Envs, Caps)

Spec == Init /\ [][Next]_vars

\* Two hook invocations at once, sharing the cache directory
\* (with every script installed and both keys, or with no script at all)
ConcCaps ==
    {[installed |-> Scripts, openai_key |-> TRUE],
     [installed |-> {}, openai_key |-> FALSE]}

\* (under the default voice, so that both work on the same entry)
ConcEnvs == [elKey : BOOLEAN, voice : {Unset}]

NextConc == \E p \in Procs : Step(p, ConcEnvs, ConcCaps)

SpecConc == Init /\ [][NextConc]_vars

-----------------------------------------------------------------------------
(* The pure helpers, called on their own *)

dispatch == <<cache, pc, env, text, result, player, resp, net, out, caps, hadEntry, meta>>

\* ELEVENLABS_VOICE_ID unset, set to the default voice, set to another voice
PathVoices == {Unset, DefaultVoice, OtherVoice}

\* Texts that differ in case or in whitespace only, the empty text among them
PathTexts == UNION {[1..n -> {"a", "A", " "}] : n \in 0..MaxTextLen}

\* cached_tts.get_cached_audio_path(text), twice, under two environments
PathCall ==
    /\ io.op = "none"
    /\ \E v1 \in PathVoices, v2 \in PathVoices, t1 \in PathTexts, t2 \in PathTexts :
          LET e1 == [elKey |-> FALSE, voice |-> v1]
              e2 == [elKey |-> FALSE, voice |-> v2]
          IN io' = [NoCall EXCEPT !.op = "path",
                       !.e1 = e1, !.t1 = t1, !.ret1 = get_cached_audio_path(e1, t1),
                       !.e2 = e2, !.t2 = t2, !.ret2 = get_cached_audio_path(e2, t2)]
    /\ UNCHANGED <<dispatch, log, hk, gen>>

\* cached_tts.get_tts_script_path() and notification.get_tts_script_path(),
\* with the keys of e, the scripts of c and cached_tts.py installed or not
SelectCall ==
    /\ io.op = "none"
    /\ \E e \in Envs, c \in Caps, w \in BOOLEAN :
          io' = [NoCall EXCEPT !.op = "select", !.e1 = e, !.c = c, !.wrapper = w,
                    !.script = get_tts_script_path(e, c),
                    !.hook_script = hook_get_tts_script_path(w, e, c)]
    /\ UNCHANGED <<dispatch, log, hk, gen>>

\* The caller has its value and goes on
PureReturn ==
    /\ io.op # "none"
    /\ io' = NoCall
    /\ UNCHANGED <<dispatch, log, hk, gen>>

NextPure == PathCall \/ SelectCall \/ PureReturn

SpecPure == Init /\ [][NextPure]_vars

-----------------------------------------------------------------------------
(* notification.main and stop.main: one invocation of a hook is one process *)

Messages == {"Claude is waiting for your input", "Claude needs your permission"}

Stdins ==
    {Stdin("malformed", None), Stdin("nonobject", None)}
        \cup {Stdin("object", m) : m \in Messages}

\* The command lines: no flag, the flags the hooks know, a flag neither knows
Flags == {"", "--notify", "--chat", "--chat --notify", "--verbose"}

\* parser.parse_args() accepts the command line: --notify for both hooks,
\* --chat for the stop hook only
ArgsOk(kind, flags) ==
    \/ flags \in {"", "--notify"}
    \/ kind = "stop" /\ flags \in {"--chat", "--chat --notify"}

Notify(flags) == flags \in {"--notify", "--chat --notify"}
Chat(flags) == flags \in {"--chat", "--chat --notify"}

\* notification.py line 149, stop.py line 238: the hook announces by speech
Speaks(kind, flags, stdin) ==
    /\ Notify(flags)
    /\ kind = "notification" => stdin.message # "Claude is waiting for your input"

\* The entry main() appends: the payload, with tts_metadata if it announced
Entry(p) ==
    [by |-> p, message |-> hk[p].stdin.message,
     tts |-> Speaks(log.kind, hk[p].flags, hk[p].stdin)]

\* sys.exit(code): the locals stay for the record until the process is gone
Exited(p, code) == hk' = [hk EXCEPT ![p].at = "exited", ![p].code = code]

\* lines 119-126 (stop.py 204-216): the command line is parsed, then standard
\* input. parse_args() ends an unknown flag with SystemExit(2), which neither
\* except clause catches; a JSONDecodeError, and the AttributeError of .get on
\* what is no object, end in sys.exit(0)
HookParse(p) ==
    /\ hk[p].at = "off"
    /\ pc[p] = "idle"
    /\ Len(log.entries) < MaxLog
    /\ \E flags \in Flags, stdin \in Stdins :
          LET h == [NoHook EXCEPT !.flags = flags, !.stdin = stdin,
                                  !.log0 = [file |-> log.file, entries |-> log.entries]]
          IN hk' = [hk EXCEPT ![p] =
                 IF ~ArgsOk(log.kind, flags) THEN [h EXCEPT !.at = "exited", !.code = 2]
                 ELSE IF stdin.form = "malformed" THEN [h EXCEPT !.at = "exited"]
                 ELSE IF log.kind = "stop" /\ stdin.form = "nonobject"
                      THEN [h EXCEPT !.at = "exited"]
                 ELSE [h EXCEPT !.at = "read"]]
    /\ UNCHANGED <<dispatch, io, gen, log>>

\* lines 131, 135-136, 156: log_dir.mkdir or open(log_file) raises an OSError
\* (a directory or a file the process may not write or read)
HookLogFails(p) ==
    /\ hk[p].at \in {"read", "open"}
    /\ Exited(p, 0)
    /\ UNCHANGED <<dispatch, io, gen, log>>

\* lines 135-145: the log is read, a log that does not parse counts as empty;
\* then the timestamp is set, which raises TypeError on what is no object
HookRead(p) ==
    /\ hk[p].at = "read"
    /\ hk' = [hk EXCEPT ![p] =
           IF hk[p].stdin.form = "nonobject" THEN [@ EXCEPT !.at = "exited"]
           ELSE [@ EXCEPT !.log_data = IF log.file = "ok" THEN log.entries ELSE <<>>,
                          !.at = IF Speaks(log.kind, hk[p].flags, hk[p].stdin)
                                 THEN "announce" ELSE "open"]]
    /\ UNCHANGED <<dispatch, io, gen, log>>

\* lines 150-151: announce_notification() has returned its metadata
HookAnnounced(p) ==
    /\ hk[p].at = "announce"
    /\ pc[p] = "done"
    /\ hk' = [hk EXCEPT ![p].at = "open"]
    /\ UNCHANGED <<dispatch, io, gen, log>>

\* lines 153-156: open(log_file, 'w') empties the file
HookOpen(p) ==
    /\ hk[p].at = "open"
    /\ log' = [log EXCEPT !.file = "corrupt", !.entries = <<>>]
    /\ hk' = [hk EXCEPT ![p].at = "dump"]
    /\ UNCHANGED <<dispatch, io, gen>>

\* What the file holds after p has written its list from offset 0. A file
\* still empty takes the list as it is. A file that another process has
\* written since p opened it keeps its tail where that is longer than p's
\* text, and then is no JSON.
Dumped(p) ==
    LET mine == [file |-> "ok", entries |-> Append(hk[p].log_data, Entry(p))]
    IN IF log.file = "ok"
       THEN {mine, [file |-> "corrupt", entries |-> <<>>]}
       ELSE {mine}

\* line 157: json.dump writes the old entries and the new one
\* (stop.py 249: then to the transcript if --chat was given)
HookDump(p) ==
    /\ hk[p].at = "dump"
    /\ \E d \in Dumped(p) : log' = [log EXCEPT !.file = d.file, !.entries = d.entries]
    /\ hk' = [hk EXCEPT ![p].at = IF Chat(hk[p].flags) THEN "chat" ELSE "exited",
                        ![p].dumped = TRUE]
    /\ UNCHANGED <<dispatch, io, gen>>

\* line 157: the write raises part way (disk full); the file keeps what was
\* written, which is no JSON
HookDumpFails(p) ==
    /\ hk[p].at = "dump"
    /\ Exited(p, 0)
    /\ UNCHANGED <<dispatch, io, gen, log>>

\* stop.py lines 249-269: the transcript is copied to chat.json, or it is not
\* there, or the copy fails silently
HookChat(p) ==
    /\ hk[p].at = "chat"
    /\ \E written \in BOOLEAN : log' = [log EXCEPT !.chat = @ \/ written]
    /\ Exited(p, 0)
    /\ UNCHANGED <<dispatch, io, gen>>

\* The process is gone; the files stay
HookExit(p) ==
    /\ hk[p].at = "exited"
    /\ hk' = [hk EXCEPT ![p] = NoHook]
    /\ pc' = [pc EXCEPT ![p] = "idle"]
    /\ env' = [env EXCEPT ![p] = [elKey |-> FALSE, voice |-> Unset]]
    /\ text' = [text EXCEPT ![p] = NoText]
    /\ result' = [result EXCEPT ![p] = NewResult]
    /\ player' = [player EXCEPT ![p] = 1]
    /\ resp' = [resp EXCEPT ![p] = <<>>]
    /\ net' = [net EXCEPT ![p] = NoNet]
    /\ out' = [out EXCEPT ![p] = NoOut]
    /\ caps' = [caps EXCEPT ![p] = NoCaps]
    /\ hadEntry' = [hadEntry EXCEPT ![p] = FALSE]
    /\ meta' = [meta EXCEPT ![p] = NewMeta]
    /\ UNCHANGED <<cache, io, gen, log>>

\* announce_notification() and the child it runs, called from main()
Announce(p, E, C) ==
    /\ hk[p].at = "announce"
    /\ \/ AnnounceNoScript(p, E, C)
       \/ AnnounceCached(p, E)
       \/ AnnounceDirect(p, E, C)
       \/ HookTimeout(p)
       \/ Collect(p)
       \/ SpeakMkdirFails(p)
       \/ SpeakHit(p)
       \/ SpeakMiss(p)
       \/ PlayOk(p)
       \/ PlayNext(p)
       \/ PlayFalse(p)
       \/ PlayRaises(p)
       \/ GenerateNoRequest(p)
       \/ GenerateRaises(p)
       \/ GenerateResponse(p)
       \/ OpenOk(p)
       \/ OpenFails(p)
       \/ WriteOk(p)
       \/ WriteFails(p)
       \/ FallbackNone(p, C)
       \/ FallbackRun(p, C)

HookStep(p, E, C) ==
    \/ HookParse(p)
    \/ HookLogFails(p)
    \/ HookRead(p)
    \/ Announce(p, E, C)
    \/ HookAnnounced(p)
    \/ HookOpen(p)
    \/ HookDump(p)
    \/ HookDumpFails(p)
    \/ HookChat(p)
    \/ HookExit(p)

\* Either hook, one invocation after the other
InitHook ==
    /\ InitDispatch
    /\ io = NoCall
    /\ \E kind \in Kinds : log = NoLog(kind)
    /\ hk = [p \in Procs |-> NoHook]
    /\ gen = NoGen

NextHook == HookStep(1, ConcEnvs, ConcCaps)

SpecHook == InitHook /\ [][NextHook]_vars

\* main() of a hook started without a flag and with a JSON object on standard
\* input: it announces nothing and copies no transcript. (A log of MaxLog
\* entries is not read any more, which keeps the log finite.)
HookQuietStep(p) ==
    \/ /\ HookParse(p)
       /\ hk'[p].flags = ""
       /\ hk'[p].stdin = Stdin("object", "Claude needs your permission")
    \/ HookLogFails(p)
    \/ HookRead(p) /\ Len(log.entries) < MaxLog
    \/ HookOpen(p)
    \/ HookDump(p)
    \/ HookDumpFails(p)
    \/ HookExit(p)

\* Two invocations of the same hook at once, on the same log file
NextHookConc == \E p \in Procs : HookQuietStep(p)

SpecHookConc == InitHook /\ [][NextHookConc]_vars

-----------------------------------------------------------------------------
(* generate_cache.main: speak_with_cache called in the generator's process *)

\* get_all_messages(): "All done!" and "All set!" of the static messages
GenMessages ==
    << <<"A", "l", "l", " ", "d", "o", "n", "e", "!">>,
       <<"A", "l", "l", " ", "s", "e", "t", "!">> >>

\* bool(d) of a dict: it has a key
Truthy(d) == DOMAIN d # {}

\* speak_with_cache and what it calls, without a hook around it
Dispatch(p, C) ==
    \/ SpeakMkdirFails(p)
    \/ SpeakHit(p)
    \/ SpeakMiss(p)
    \/ PlayOk(p)
    \/ PlayNext(p)
    \/ PlayFalse(p)
    \/ PlayRaises(p)
    \/ GenerateNoRequest(p)
    \/ GenerateRaises(p)
    \/ GenerateResponse(p)
    \/ OpenOk(p)
    \/ OpenFails(p)
    \/ WriteOk(p)
    \/ WriteFails(p)
    \/ FallbackNone(p, C)
    \/ FallbackRun(p, C)

\* lines 60-68: the generator starts, in the environment of its process
GenStart(p, E) ==
    /\ gen.at = "off"
    /\ pc[p] = "idle"
    /\ \E e \in E : env' = [env EXCEPT ![p] = e]
    /\ gen' = [NoGen EXCEPT !.at = "loop"]
    /\ UNCHANGED <<cache, pc, text, result, player, resp, net, out, caps, hadEntry, meta,
                   io, log, hk>>

\* lines 70-77: the message is cached already
GenSkip(p) ==
    /\ gen.at = "loop"
    /\ gen.i <= Len(GenMessages)
    /\ exists(get_cached_audio_path(env[p], GenMessages[gen.i]))
    /\ gen' = [gen EXCEPT !.skip_count = @ + 1, !.i = @ + 1]
    /\ UNCHANGED <<dispatch, io, log, hk>>

\* lines 70-82: it is not; speak_with_cache(message) is called
GenCall(p) ==
    /\ gen.at = "loop"
    /\ gen.i <= Len(GenMessages)
    /\ ~exists(get_cached_audio_path(env[p], GenMessages[gen.i]))
    /\ gen' = [gen EXCEPT !.at = "call"]
    /\ text' = [text EXCEPT ![p] = GenMessages[gen.i]]
    /\ result' = [result EXCEPT ![p] = NewResult]
    /\ player' = [player EXCEPT ![p] = 1]
    /\ resp' = [resp EXCEPT ![p] = <<>>]
    /\ net' = [net EXCEPT ![p] = NoNet]
    /\ out' = [out EXCEPT ![p] = NoOut]
    /\ caps' = [caps EXCEPT ![p] = NoCaps]
    /\ pc' = [pc EXCEPT ![p] = "speak"]
    /\ UNCHANGED <<cache, env, hadEntry, meta, io, log, hk>>

\* speak_with_cache at work
GenSpeak(p, C) ==
    /\ gen.at = "call"
    /\ Dispatch(p, C)

\* lines 82-93: the dict that came back is tested for truth and the message is
\* counted; `unspoken` counts the calls that came back without any backend
GenReturned(p) ==
    /\ gen.at = "call"
    /\ pc[p] = "returned"
    /\ gen' = [gen EXCEPT
           !.at = "loop",
           !.i = @ + 1,
           !.success_count = IF Truthy(result[p]) THEN @ + 1 ELSE @,
           !.fail_count = IF Truthy(result[p]) THEN @ ELSE @ + 1,
           !.unspoken = IF result[p].tts_backend = None THEN @ + 1 ELSE @]
    /\ pc' = [pc EXCEPT ![p] = "idle"]
    /\ UNCHANGED <<cache, env, text, result, player, resp, net, out, caps, hadEntry, meta,
                   io, log, hk>>

\* line 82: speak_with_cache raised; nothing in main catches it
GenRaised(p) ==
    /\ gen.at = "call"
    /\ pc[p] = "raised"
    /\ gen' = [gen EXCEPT !.at = "done", !.code = 1, !.crashed = TRUE]
    /\ pc' = [pc EXCEPT ![p] = "idle"]
    /\ UNCHANGED <<cache, env, text, result, player, resp, net, out, caps, hadEntry, meta,
                   io, log, hk>>

\* lines 95-107: the summary and the return value
GenDone(p) ==
    /\ gen.at = "loop"
    /\ gen.i > Len(GenMessages)
    /\ gen' = [gen EXCEPT !.at = "done", !.code = IF gen.fail_count = 0 THEN 0 ELSE 1]
    /\ UNCHANGED <<dispatch, io, log, hk>>

\* line 111: sys.exit(main()); the cache stays
GenExit(p) ==
    /\ gen.at = "done"
    /\ gen' = NoGen
    /\ env' = [env EXCEPT ![p] = [elKey |-> FALSE, voice |-> Unset]]
    /\ text' = [text EXCEPT ![p] = NoText]
    /\ result' = [result EXCEPT ![p] = NewResult]
    /\ player' = [player EXCEPT ![p] = 1]
    /\ resp' = [resp EXCEPT ![p] = <<>>]
    /\ net' = [net EXCEPT ![p] = NoNet]
    /\ out' = [out EXCEPT ![p] = NoOut]
    /\ caps' = [caps EXCEPT ![p] = NoCaps]
    /\ UNCHANGED <<cache, pc, hadEntry, meta, io, log, hk>>

GenStep(p, E, C) ==
    \/ GenStart(p, E)
    \/ GenSkip(p)
    \/ GenCall(p)
    \/ GenSpeak(p, C)
    \/ GenReturned(p)
    \/ GenRaised(p)
    \/ GenDone(p)
    \/ GenExit(p)

NextGen == GenStep(1, ConcEnvs, ConcCaps)

SpecGen == Init /\ [][NextGen]_vars

-----------------------------------------------------------------------------
(* Properties *)

Returned(p) == pc[p] = "returned"

\* The priority order of the design: premium, then secondary cloud, then local
Highest(a) ==
    IF "elevenlabs_tts" \in a THEN "elevenlabs_tts"
    ELSE IF "openai_tts" \in a THEN "openai_tts"
    ELSE IF "system_voice_tts" \in a THEN "system_voice_tts"
    ELSE None

\* The backend script the fallback of this call ran, if any
Invoked(p) == IF result[p].tts_backend \in Scripts THEN result[p].tts_backend ELSE None

\* C1: speak_with_cache never raises to its caller, whatever step fails.
C1_NeverRaises == \A p \in Procs : pc[p] # "raised"

\* C2: once premium synthesis or the playback of its audio has failed, the
\* fallback invokes the secondary cloud backend if it is available, else the
\* local system backend, and never the premium backend again.
C2_FallbackSkipsPremium ==
    \A p \in Procs :
        (pc[p] \in {"returned", "raised"} /\ env[p].elKey /\ result[p].fallback_used)
            => Invoked(p) = Highest(caps[p].available \ {"elevenlabs_tts"})

\* C3: when nothing was heard in a speak call the result reports no backend and
\* the hook's metadata has tts_triggered = false; a reported backend is one that
\* produced output.
C3_SilentMeansNone ==
    \A p \in Procs :
        /\ Returned(p) => result[p].tts_backend = out[p].backend
        /\ (pc[p] = "done" /\ result[p].cache_file # NoPath /\ meta[p].error = None
               /\ out[p].backend = None) => ~meta[p].tts_triggered

\* C4 as stated: with an entry for (voice, text) in the cache, every speak call
\* returns cache_hit = true and sends no request.
C4_HitNeverRequests ==
    \A p \in Procs :
        (Returned(p) /\ hadEntry[p]) => (result[p].cache_hit /\ net[p] = NoNet)

\* C4 as amended: with an entry for (voice, text) in the cache, every speak call
\* returns cache_hit = true, and a call that plays the entry sends no request
\* and reports the cache.
C4_HitPlayedNeverRequests ==
    \A p \in Procs :
        (Returned(p) /\ hadEntry[p]) =>
            /\ result[p].cache_hit
            /\ out[p].backend = "cache" =>
                  (net[p] = NoNet /\ ~result[p].fallback_used)

C4_Witness ==
    \E p \in Procs :
        /\ Returned(p) /\ hadEntry[p] /\ env[p].elKey
        /\ out[p].backend = "cache" /\ result[p].cache_hit

\* C5: a result that reports the premium backend has cache_hit = false, and
\* cache_hit = true is reported only when the audio played was the cached entry.
C5_PremiumIsNoHit ==
    \A p \in Procs :
        Returned(p) =>
            /\ result[p].tts_backend = "elevenlabs" => ~result[p].cache_hit
            /\ result[p].cache_hit => out[p].backend = "cache"

\* C6: a cache entry, once there, keeps its bytes and is never removed by any
\* speak call, also when its playback fails.
C6_EntriesImmutable ==
    [][\A k \in DOMAIN cache :
          Complete(cache[k]) => (k \in DOMAIN cache' /\ cache'[k] = cache[k])]_vars

\* C7: the cache write is all-or-nothing: no process about to look an entry up
\* finds a file that does not hold the complete audio, and no process plays a
\* partially written file.
C7_AtomicWrite ==
    \A p \in Procs :
        /\ (pc[p] = "speak" /\ exists(path_of(p))) => Complete(cache[path_of(p)])
        /\ out[p].whole

\* C8: one speak call sends at most one request per backend.
C8_OneRequestPerBackend ==
    \A p \in Procs : net[p].premium <= 1 /\ net[p].secondary <= 1

C10_OnlyPremiumAudioCached ==
    \A k \in DOMAIN cache :
        \A i \in 1..Len(cache[k]) :
            /\ cache[k][i].voice = k.dir
            /\ cache[k][i].text \in Texts
            /\ get_cache_key(cache[k][i].text) = k.name

C10_Witness ==
    \E p \in Procs :
        /\ Returned(p) /\ out[p].backend \in {"openai_tts", "system_voice_tts"}
        /\ exists(path_of(p)) /\ Len(cache[path_of(p)]) > 0
        /\ net[p].premium > 0

-----------------------------------------------------------------------------
C11_HitPlaysOwnVoice ==
    \A p \in Procs :
        (Returned(p) /\ out[p].backend = "cache") =>
            \A i \in 1..Len(cache[path_of(p)]) :
                cache[path_of(p)][i].voice = VoiceId(env[p])

\* C12 as stated: both selectors return the premium script if it is available,
\* else the secondary one, else the local one, else nothing.
C12_BothSelectByPriority ==
    io.op = "select" =>
        /\ io.script = Highest(Available(io.e1, io.c))
        /\ io.hook_script = Highest(Available(io.e1, io.c))

\* C12 as amended: the dispatcher's selector returns the highest available
\* backend script; the hooks' selector returns the cached wrapper whenever that
\* is installed and the highest available backend script only when it is not.
C12_SelectByPriority ==
    io.op = "select" =>
        /\ io.script = Highest(Available(io.e1, io.c))
        /\ io.hook_script =
              IF io.wrapper THEN "cached_tts" ELSE Highest(Available(io.e1, io.c))

\* The premium script is installed without its key; the secondary one is chosen
C12_Witness ==
    /\ io.op = "select"
    /\ io.c.installed = Scripts /\ io.c.openai_key /\ ~io.e1.elKey
    /\ io.script = "openai_tts"
    /\ ~io.wrapper /\ io.hook_script = "openai_tts"

\* The call of p found no entry, holds the credential and got a 200 response
Synthesized(p) == Returned(p) /\ env[p].elKey /\ ~hadEntry[p] /\ resp[p] # <<>>

\* At the path of the call there is a file that holds the response's bytes, and
\* the result reports the premium backend without a cache hit
EntryAndPremium(p) ==
    /\ exists(path_of(p))
    /\ cache[path_of(p)] = resp[p]
    /\ result[p].cache_file = path_of(p)
    /\ result[p].tts_backend = "elevenlabs"
    /\ result[p].cache_hit = FALSE

\* C13 as stated: with the premium credential, no cache entry and a successful
\* synthesis, the call returns with the synthesized bytes in a cache file at the
\* voice's path and a result that reports the premium backend and no cache hit.
C13_SynthesisGivesEntry ==
    \A p \in Procs : Synthesized(p) => EntryAndPremium(p)

\* C13 as amended: the same, for a call that runs alone, writes the file and
\* plays it without having to fall back.
C13_PlayedSynthesisGivesEntry ==
    \A p \in Procs :
        (Synthesized(p) /\ ~result[p].fallback_used) => EntryAndPremium(p)

\* A call that synthesized, wrote and played the other voice's entry
C13_Witness ==
    \E p \in Procs :
        /\ Synthesized(p) /\ ~result[p].fallback_used
        /\ env[p].voice = OtherVoice
        /\ out[p].backend = "elevenlabs"
        /\ Complete(cache[path_of(p)])

-----------------------------------------------------------------------------
\* The attempts a speak call can still make from where it is: two rounds of
\* players, the synthesis with its open and write, and the fallback script
Rank(p) ==
    CASE pc[p] = "speak" -> 2 * NumPlayers + 5
      [] pc[p] = "play_cached" -> 2 * NumPlayers + 5 - player[p]
      [] pc[p] = "generate" -> NumPlayers + 4
      [] pc[p] = "open" -> NumPlayers + 3
      [] pc[p] = "write" -> NumPlayers + 2
      [] pc[p] = "play_new" -> NumPlayers + 2 - player[p]
      [] pc[p] = "fallback" -> 1
      [] OTHER -> 0

\* A step of the speak call of p itself (not the hook killing the child)
SpeakStep(p) ==
    /\ pc[p] \in Running
    /\ pc'[p] # "done"
    /\ pc'[p] # pc[p] \/ player'[p] # player[p]

\* Every step of a speak call takes it strictly nearer to its end: no attempt
\* is made twice and a call makes at most 2 * NumPlayers + 5 steps.
SpeakRankDecreases ==
    [][\A p \in Procs : SpeakStep(p) => Rank(p)' < Rank(p)]_vars

\* C16: every speak call reaches a terminal state and returns: each of its
\* steps takes it strictly nearer to the end (a bounded number of attempts, no
\* step twice), and the step that ends it is a return.
C16_ReturnsBounded ==
    [][\A p \in Procs :
          SpeakStep(p) => (Rank(p)' < Rank(p) /\ pc'[p] # "raised")]_vars

\* The hook ran the dispatcher (cached_tts.py), not a backend script
ViaDispatcher(p) ==
    meta[p].tts_triggered /\ (caps[p].seen => result[p].fallback_used)

\* C18: a timeout is a recoverable failure of the dispatcher: no hook whose
\* dispatcher got as far as a playback or backend call is left with a timeout
\* in place of the dispatcher's record.
C18_TimeoutRecoverable ==
    \A p \in Procs :
        (pc[p] = "done" /\ ViaDispatcher(p) /\ result[p].cache_file # NoPath) =>
            meta[p].error # "TTS timeout"

\* C19: the voice in the result is the voice of the audio: of the entry played
\* on a cache hit, of the request when the premium backend was called directly
\* or through the fallback script.
C19_ReportedVoiceProduced ==
    \A p \in Procs :
        Returned(p) =>
            /\ out[p].backend = "cache" =>
                  \A i \in 1..Len(cache[path_of(p)]) :
                      cache[path_of(p)][i].voice = result[p].voice_id
            /\ out[p].backend = "elevenlabs" =>
                  \A i \in 1..Len(resp[p]) : resp[p][i].voice = result[p].voice_id
            /\ out[p].backend = "elevenlabs_tts" => ScriptVoice = result[p].voice_id

-----------------------------------------------------------------------------
IsPrefix(s, t) == Len(s) <= Len(t) /\ SubSeq(t, 1, Len(s)) = s

\* The hook process p has ended
HookEnded(p) == hk[p].at = "exited"

\* The log is as it was when the invocation of p started
LogUntouched(p) == [file |-> log.file, entries |-> log.entries] = hk[p].log0

\* C14: whatever fails inside, an invocation of a hook ends with exit code 0.
C14_AlwaysExitsZero ==
    \A p \in Procs : HookEnded(p) => hk[p].code = 0

\* C15: an invocation whose standard input is no JSON ends with exit code 0,
\* the log as it was and no speech.
C15_MalformedLeavesNoTrace ==
    \A p \in Procs :
        (HookEnded(p) /\ hk[p].stdin.form = "malformed") =>
            /\ hk[p].code = 0
            /\ LogUntouched(p)
            /\ meta[p] = NewMeta /\ out[p] = NoOut /\ net[p] = NoNet

\* With a command line the hook accepts, standard input that is no JSON ends
\* the invocation with exit code 0, the log as it was and no speech.
MalformedAfterFlags ==
    \A p \in Procs :
        (HookEnded(p) /\ hk[p].stdin.form = "malformed" /\ ArgsOk(log.kind, hk[p].flags)) =>
            /\ hk[p].code = 0
            /\ LogUntouched(p)
            /\ meta[p] = NewMeta /\ out[p] = NoOut /\ net[p] = NoNet

\* Whenever an invocation ends, the entries the log held at its start are
\* still its first entries.
EntriesKept ==
    \A p \in Procs : HookEnded(p) => IsPrefix(hk[p].log0.entries, log.entries)

\* C17: when an invocation ends, every entry the log held at its start is
\* still there, unaltered and in its place, and an invocation with a JSON
\* object on standard input has added its one entry at the end.
C17_AppendOnly ==
    \A p \in Procs :
        HookEnded(p) =>
            /\ log.file = "ok" \/ LogUntouched(p)
            /\ IsPrefix(hk[p].log0.entries, log.entries)
            /\ hk[p].stdin.form = "object" =>
                  log.entries = Append(hk[p].log0.entries, Entry(p))
            /\ hk[p].stdin.form # "object" => LogUntouched(p)

-----------------------------------------------------------------------------
\* C20: the generator counts as failed exactly the messages that were not
\* cached and that no backend could speak, and when main returns the three
\* counters add up to the number of messages and the return value is 1 if a
\* message failed and 0 if none did.
C20_CountsFailures ==
    /\ gen.fail_count = gen.unspoken
    /\ (gen.at = "done" /\ ~gen.crashed) =>
          /\ gen.success_count + gen.skip_count + gen.fail_count = Len(GenMessages)
          /\ gen.code = IF gen.unspoken > 0 THEN 1 ELSE 0

\* When main returns, the three counters add up to the number of messages.
CountersAddUp ==
    (gen.at = "done" /\ ~gen.crashed) =>
        gen.success_count + gen.skip_count + gen.fail_count = Len(GenMessages)

-----------------------------------------------------------------------------
Range(s) == {s[i] : i \in 1..Len(s)}

\* C21: when two invocations of the same hook have both read the log, added
\* their entry and written it back, the log holds the entries of both,
\* however their steps were interleaved.
C21_BothEntriesKept ==
    \A p \in Procs, q \in Procs :
        (p # q /\ HookEnded(p) /\ HookEnded(q) /\ hk[p].dumped /\ hk[q].dumped) =>
            /\ log.file = "ok"
            /\ Entry(p) \in Range(log.entries)
            /\ Entry(q) \in Range(log.entries)

\* Two invocations one after the other: the second read what the first wrote
SequentialKeepsBoth ==
    \E p \in Procs, q \in Procs :
        /\ p # q /\ HookEnded(p) /\ HookEnded(q) /\ hk[p].dumped /\ hk[q].dumped
        /\ log.file = "ok"
        /\ log.entries = <<Entry(p), Entry(q)>>

====
